---- MODULE Spec2Model ----
(***************************************************************************)
(* bbgtunnel: a TCP tunnel for Bloomberg reference-data requests.          *)
(*   bbg_server.py  resolve(), ServerHandler.handle(), main()              *)
(*   bbg_client.py  sender()                                               *)
(* A request body is modelled as the sequence of JSON tokens of its text;  *)
(* json.loads is a parser over those tokens and json.dumps a printer that  *)
(* produces them.  Python values are tagged records [k, v].                *)
(***************************************************************************)
EXTENDS Integers, Sequences, FiniteSets, TLC

(* ------------------------------ bounds --------------------------------- *)
NumClients == 2

(* ------------------------- Python / JSON values ------------------------ *)
None == [k |-> "none", v |-> <<>>]
Str(s) == [k |-> "str", v |-> s]
Num(n) == [k |-> "num", v |-> n]
Bool(b) == [k |-> "bool", v |-> b]
List(xs) == [k |-> "list", v |-> xs]
Dict(ps) == [k |-> "dict", v |-> ps]
Pair(key, val) == [key |-> key, val |-> val]

(* dict lookup and insertion; a Python dict keeps insertion order and an   *)
(* assignment to an existing key keeps the key's position.                 *)
HasKey(d, key) == \E i \in 1..Len(d.v) : d.v[i].key = key

Get(d, key) == d.v[CHOOSE i \in 1..Len(d.v) : d.v[i].key = key].val

Put(d, key, val) ==
    IF HasKey(d, key)
    THEN Dict([i \in 1..Len(d.v) |->
                  IF d.v[i].key = key THEN Pair(key, val) ELSE d.v[i]])
    ELSE Dict(Append(d.v, Pair(key, val)))

(* ------------------------------ tokens --------------------------------- *)
P(x) == [k |-> "punct", v |-> x]
S(x) == [k |-> "str", v |-> x]
N(x) == [k |-> "num", v |-> x]
W(x) == [k |-> "word", v |-> x]

IsP(toks, i, x) == i <= Len(toks) /\ toks[i] = P(x)

Fail == [ok |-> FALSE, val |-> None, next |-> 0]
Ok(val, next) == [ok |-> TRUE, val |-> val, next |-> next]

(* json.loads: a recursive-descent parser.  ParseValue reads one value     *)
(* starting at token i; ParseElems the rest of an array after "[" and      *)
(* ParseMembers the rest of an object after "{" (a repeated key keeps its  *)
(* last value, as Python's dict does).                                     *)
RECURSIVE ParseValue(_, _), ParseElems(_, _, _), ParseMembers(_, _, _)

ParseValue(toks, i) ==
    IF i > Len(toks) THEN Fail
    ELSE LET t == toks[i] IN
      CASE t.k = "str" -> Ok(Str(t.v), i + 1)
        [] t.k = "num" -> Ok(Num(t.v), i + 1)
        [] t.k = "word" ->
             IF t.v = "null" THEN Ok(None, i + 1)
             ELSE IF t.v = "true" THEN Ok(Bool("true"), i + 1)
             ELSE IF t.v = "false" THEN Ok(Bool("false"), i + 1)
             ELSE Fail
        [] t.k = "punct" ->
             IF t.v = "[" THEN
                  IF IsP(toks, i + 1, "]") THEN Ok(List(<<>>), i + 2)
                  ELSE ParseElems(toks, i + 1, <<>>)
             ELSE IF t.v = "{" THEN
                  IF IsP(toks, i + 1, "}") THEN Ok(Dict(<<>>), i + 2)
                  ELSE ParseMembers(toks, i + 1, Dict(<<>>))
             ELSE Fail

ParseElems(toks, i, acc) ==
    LET r == ParseValue(toks, i) IN
    IF ~r.ok THEN Fail
    ELSE IF IsP(toks, r.next, ",") THEN ParseElems(toks, r.next + 1, Append(acc, r.val))
    ELSE IF IsP(toks, r.next, "]") THEN Ok(List(Append(acc, r.val)), r.next + 1)
    ELSE Fail

ParseMembers(toks, i, acc) ==
    IF ~(i <= Len(toks) /\ toks[i].k = "str" /\ IsP(toks, i + 1, ":")) THEN Fail
    ELSE LET r == ParseValue(toks, i + 2) IN
      IF ~r.ok THEN Fail
      ELSE IF IsP(toks, r.next, ",")
           THEN ParseMembers(toks, r.next + 1, Put(acc, toks[i].v, r.val))
      ELSE IF IsP(toks, r.next, "}")
           THEN Ok(Put(acc, toks[i].v, r.val), r.next + 1)
      ELSE Fail

(* a json.loads that stops after the first value and ignores what follows  *)
LoadsPrefix(toks) == ParseValue(toks, 1)

(* json.loads(data): one value and nothing after it, else JSONDecodeError. *)
Loads(toks) ==
    LET r == ParseValue(toks, 1) IN
    IF r.ok /\ r.next = Len(toks) + 1 THEN r ELSE Fail

(* json.dumps(value): the tokens of the value's text.                      *)
RECURSIVE Dumps(_), DumpElems(_, _), DumpMembers(_, _)

Dumps(val) ==
    CASE val.k = "none" -> <<W("null")>>
      [] val.k = "str" -> <<S(val.v)>>
      [] val.k = "num" -> <<N(val.v)>>
      [] val.k = "bool" -> <<W(val.v)>>
      [] val.k = "list" -> <<P("[")>> \o DumpElems(val.v, 1) \o <<P("]")>>
      [] val.k = "dict" -> <<P("{")>> \o DumpMembers(val.v, 1) \o <<P("}")>>

DumpElems(xs, i) ==
    IF i > Len(xs) THEN <<>>
    ELSE Dumps(xs[i]) \o (IF i < Len(xs) THEN <<P(",")>> ELSE <<>>) \o DumpElems(xs, i + 1)

DumpMembers(ps, i) ==
    IF i > Len(ps) THEN <<>>
    ELSE <<S(ps[i].key), P(":")>> \o Dumps(ps[i].val)
         \o (IF i < Len(ps) THEN <<P(",")>> ELSE <<>>) \o DumpMembers(ps, i + 1)

(* --------------------------- request bodies ---------------------------- *)
StrList(xs) == List([i \in 1..Len(xs) |-> Str(xs[i])])

(* the tokens of a JSON array of strings, e.g. ["E1","E2"]                  *)
RECURSIVE Commas(_, _)
Commas(xs, i) ==
    IF i > Len(xs) THEN <<>>
    ELSE <<S(xs[i])>> \o (IF i < Len(xs) THEN <<P(",")>> ELSE <<>>) \o Commas(xs, i + 1)

Arr(xs) == <<P("[")>> \o Commas(xs, 1) \o <<P("]")>>

(* [entities, fields]                                                      *)
ListBody(e, f) == <<P("[")>> \o Arr(e) \o <<P(",")>> \o Arr(f) \o <<P("]")>>

(* {"securities": entities, "fields": fields}                              *)
MapBody(e, f) ==
    <<P("{"), S("securities"), P(":")>> \o Arr(e)
    \o <<P(","), S("fields"), P(":")>> \o Arr(f) \o <<P("}")>>

(* {"fields": fields, "securities": entities}                              *)
MapBodyRev(e, f) ==
    <<P("{"), S("fields"), P(":")>> \o Arr(f)
    \o <<P(","), S("securities"), P(":")>> \o Arr(e) \o <<P("}")>>

EntityLists == {<<"E1">>, <<"E1", "E2">>}
FieldLists == {<<"F1">>, <<"F2", "F1">>}

WellFormed ==
    UNION {{ListBody(e, f), MapBody(e, f), MapBodyRev(e, f)} :
              e \in EntityLists, f \in FieldLists}

(* requests the validation rules are about                                 *)
Malformed ==
    { <<>>,                                                   \* empty body
      <<W("not"), W("json")>>,                                \* not json
      <<P("["), P("["), S("E1"), P("]")>>,                    \* [["E1"]
      ListBody(<<"E1">>, <<"F1">>) \o <<P("]")>> }            \* [["E1"],["F1"]]]

BadShape ==
    { <<S("E1")>>,                                            \* "E1"
      <<W("null")>>,                                          \* null
      <<P("[")>> \o Arr(<<"E1">>) \o <<P("]")>>,              \* [["E1"]]
      <<P("[")>> \o Arr(<<"E1">>) \o <<P(",")>> \o Arr(<<"F1">>)
          \o <<P(",")>> \o Arr(<<"F2">>) \o <<P("]")>>,       \* [["E1"],["F1"],["F2"]]
      <<P("{"), S("securities"), P(":")>> \o Arr(<<"E1">>) \o <<P("}")>>,
                                                              \* {"securities":["E1"]}
      <<P("{"), S("fields"), P(":")>> \o Arr(<<"F1">>) \o <<P("}")>> }
                                                              \* {"fields":["F1"]}

EmptyList ==
    { ListBody(<<>>, <<"F1">>),                               \* [[],["F1"]]
      ListBody(<<"E1">>, <<>>),                               \* [["E1"],[]]
      MapBody(<<>>, <<"F1">>),                    \* {"securities":[],"fields":["F1"]}
      MapBody(<<"E1">>, <<>>) }                   \* {"securities":["E1"],"fields":[]}

BadType ==
    { <<P("["), P("["), N("1"), P("]"), P(",")>> \o Arr(<<"F1">>) \o <<P("]")>>,
                                                              \* [[1],["F1"]]
      <<P("["), S("E1"), P(",")>> \o Arr(<<"F1">>) \o <<P("]")>>,
                                                              \* ["E1",["F1"]]
      <<P("[")>> \o Arr(<<"E1">>) \o <<P(","), N("7"), P("]")>>,
                                                              \* [["E1"],7]
      <<P("[")>> \o Arr(<<"E1">>) \o <<P(","), N("0"), P("]")>>,
                                                              \* [["E1"],0]
      <<P("{"), S("securities"), P(":")>> \o Arr(<<"E1">>)
          \o <<P(","), S("fields"), P(":"), P("["), W("true"), P("]"), P("}")>> }
                                                  \* {"securities":["E1"],"fields":[true]}

ExtraKey ==
    { <<P("{"), S("securities"), P(":")>> \o Arr(<<"E1">>)
          \o <<P(","), S("fields"), P(":")>> \o Arr(<<"F1">>)
          \o <<P(","), S("extra"), P(":"), N("1"), P("}")>> }
                                      \* {"securities":["E1"],"fields":["F1"],"extra":1}

Bodies == WellFormed \cup Malformed \cup BadShape \cup EmptyList \cup BadType \cup ExtraKey

(* one request of each kind, for the specification of the whole system      *)
Requests ==
    { ListBody(<<"E1">>, <<"F1">>),
      MapBody(<<"E1">>, <<"F1">>),
      <<W("not"), W("json")>>,
      <<P("[")>> \o Arr(<<"E1">>) \o <<P(",")>> \o Arr(<<"F1">>)
          \o <<P(",")>> \o Arr(<<"F2">>) \o <<P("]")>>,
      <<P("{"), S("securities"), P(":")>> \o Arr(<<"E1">>) \o <<P("}")>>,
      ListBody(<<>>, <<"F1">>),
      <<P("["), P("["), N("1"), P("]"), P(",")>> \o Arr(<<"F1">>) \o <<P("]")>> }

(* ------------------- ServerHandler.handle, lines 79-103 ----------------- *)
(* Python truthiness, as "if not securities or not fields" applies it.     *)
Truthy(val) ==
    CASE val.k = "none" -> FALSE
      [] val.k = "str" -> val.v # ""
      [] val.k = "num" -> val.v # "0"
      [] val.k = "bool" -> val.v = "true"
      [] val.k = "list" -> Len(val.v) > 0
      [] val.k = "dict" -> Len(val.v) > 0

IsList(val) == val.k = "list"

AllStr(val) == \A i \in 1..Len(val.v) : val.v[i].k = "str"

(* an extraction that takes the first two elements of a longer sequence      *)
ExtractLoose(data) ==
    IF data.k = "dict" THEN
        IF HasKey(data, "securities") /\ HasKey(data, "fields")
        THEN [exc |-> "", securities |-> Get(data, "securities"),
              fields |-> Get(data, "fields")]
        ELSE [exc |-> "KeyError", securities |-> None, fields |-> None]
    ELSE IF data.k = "list" THEN
        IF Len(data.v) >= 2
        THEN [exc |-> "", securities |-> data.v[1], fields |-> data.v[2]]
        ELSE [exc |-> "ValueError", securities |-> None, fields |-> None]
    ELSE [exc |-> "NotImplementedError", securities |-> None, fields |-> None]

(* an extraction that unpacks a mapping by position, like a sequence         *)
ExtractByPosition(data) ==
    IF data.k = "dict" THEN
        IF HasKey(data, "securities") /\ HasKey(data, "fields")
        THEN [exc |-> "", securities |-> data.v[1].val, fields |-> data.v[2].val]
        ELSE [exc |-> "KeyError", securities |-> None, fields |-> None]
    ELSE IF data.k = "list" THEN
        IF Len(data.v) = 2
        THEN [exc |-> "", securities |-> data.v[1], fields |-> data.v[2]]
        ELSE [exc |-> "ValueError", securities |-> None, fields |-> None]
    ELSE [exc |-> "NotImplementedError", securities |-> None, fields |-> None]

(* an extraction that takes a mapping only when it has just the two keys     *)
ExtractExact(data) ==
    IF data.k = "dict" THEN
        IF HasKey(data, "securities") /\ HasKey(data, "fields") /\ Len(data.v) = 2
        THEN [exc |-> "", securities |-> Get(data, "securities"),
              fields |-> Get(data, "fields")]
        ELSE [exc |-> "KeyError", securities |-> None, fields |-> None]
    ELSE IF data.k = "list" THEN
        IF Len(data.v) = 2
        THEN [exc |-> "", securities |-> data.v[1], fields |-> data.v[2]]
        ELSE [exc |-> "ValueError", securities |-> None, fields |-> None]
    ELSE [exc |-> "NotImplementedError", securities |-> None, fields |-> None]

(* lines 82-87: the pair (securities, fields) the shape rules extract, or   *)
(* the exception they raise; both names keep None when one is raised.       *)
Extract(data) ==
    IF data.k = "dict" THEN
        IF HasKey(data, "securities") /\ HasKey(data, "fields")
        THEN [exc |-> "", securities |-> Get(data, "securities"),
              fields |-> Get(data, "fields")]
        ELSE [exc |-> "KeyError", securities |-> None, fields |-> None]
    ELSE IF data.k = "list" THEN
        IF Len(data.v) = 2
        THEN [exc |-> "", securities |-> data.v[1], fields |-> data.v[2]]
        ELSE [exc |-> "ValueError", securities |-> None, fields |-> None]
    ELSE [exc |-> "NotImplementedError", securities |-> None, fields |-> None]

(* lines 88-90: the three assertions, run after the names are bound.        *)
Asserts(securities, fields) ==
    /\ IsList(securities) /\ IsList(fields)
    /\ AllStr(securities)
    /\ AllStr(fields)

(* lines 79-101: the try block and its handlers.  JSONDecodeError is        *)
(* re-raised (line 93); every other handler prints and falls through with   *)
(* whatever securities and fields are bound at that point.                  *)
TryBlock(toks) ==
    LET r == Loads(toks) IN
    IF ~r.ok
    THEN [exc |-> "JSONDecodeError", raised |-> TRUE, securities |-> None, fields |-> None]
    ELSE LET x == Extract(r.val) IN
      IF x.exc # ""
      THEN [exc |-> x.exc, raised |-> FALSE, securities |-> None, fields |-> None]
      ELSE IF ~Asserts(x.securities, x.fields)
      THEN [exc |-> "AssertionError", raised |-> FALSE,
            securities |-> x.securities, fields |-> x.fields]
      ELSE [exc |-> "", raised |-> FALSE,
            securities |-> x.securities, fields |-> x.fields]

(* a test that returns only when both are empty                              *)
SkipQueryBoth(securities, fields) == ~Truthy(securities) /\ ~Truthy(fields)

(* line 102: "if not securities or not fields: return"                      *)
SkipQuery(securities, fields) == ~Truthy(securities) \/ ~Truthy(fields)

(* ----------------------- resolve(), lines 45-66 ------------------------- *)
(* What the backend can deliver.  An event has a type and carries           *)
(* securityData entries; an entry names a security and lists field          *)
(* elements, each valid or not, scalar or array-valued.  The loops of       *)
(* lines 51-64 are followed one entry and one element at a time, so an      *)
(* event may carry any number of them.                                      *)
SecNames == {"A", "B"}
FldNames == {"X", "Y"}
FldValues == {"v1", "v2"}
EventTypes == {"PARTIAL_RESPONSE", "RESPONSE", "TIMEOUT"}

FieldElems ==
    [name : FldNames, valid : BOOLEAN, array : BOOLEAN, vals : [1..1 -> FldValues]]

(* the part of it the whole-system specification draws from                 *)
WireSecNames == {"A"}
WireFieldElems == {e \in FieldElems : e.name = "X" /\ e.vals[1] = "v1" /\ ~e.array}

(* line 49: only these two event types are looked into                      *)
IsData(type) == type \in {"PARTIAL_RESPONSE", "RESPONSE"}

(* a loop that is left after any event that was looked into                  *)
IsTerminalAny(type) == IsData(type)

(* line 65                                                                  *)
IsTerminal(type) == type = "RESPONSE"

(* an entry that starts the security's mapping anew each time                *)
EnterSecAnew(r, name) == Put(r, name, Dict(<<>>))

(* lines 55-56: the security's mapping is created on first appearance       *)
EnterSec(r, name) == IF HasKey(r, name) THEN r ELSE Put(r, name, Dict(<<>>))

(* a field element that leaves a value already there alone                   *)
SetFieldFirst(entry, fld) ==
    IF ~fld.valid \/ HasKey(entry, fld.name) THEN entry
    ELSE IF fld.array
         THEN Put(entry, fld.name, List([i \in 1..Len(fld.vals) |-> Str(fld.vals[i])]))
         ELSE Put(entry, fld.name, Str(fld.vals[1]))

(* an invalid field element entered as a null                               *)
SetFieldNull(entry, fld) ==
    IF ~fld.valid THEN Put(entry, fld.name, None)
    ELSE IF fld.array
         THEN Put(entry, fld.name, List([i \in 1..Len(fld.vals) |-> Str(fld.vals[i])]))
         ELSE Put(entry, fld.name, Str(fld.vals[1]))

(* lines 59-64: one field element into a security's mapping                 *)
SetField(entry, fld) ==
    IF ~fld.valid THEN entry
    ELSE IF fld.array
         THEN Put(entry, fld.name, List([i \in 1..Len(fld.vals) |-> Str(fld.vals[i])]))
         ELSE Put(entry, fld.name, Str(fld.vals[1]))

(* lines 51-64 for a page: an event with one securityData entry that has    *)
(* one field element                                                        *)
MaxPages == 2
Pages == [security : SecNames, fld : FieldElems]
LastPages == [security : WireSecNames, fld : WireFieldElems]

MergePage(r, page) ==
    LET r1 == EnterSec(r, page.security) IN
    Put(r1, page.security, SetField(Get(r1, page.security), page.fld))

(* the orders in which the first n of n + 1 pages can come                  *)
Orders(n) ==
    {q \in [1..(n + 1) -> 1..(n + 1)] :
        /\ q[n + 1] = n + 1
        /\ \A i, j \in 1..(n + 1) : q[i] = q[j] => i = j}

(* "for security in securities" (lines 40-43) needs an iterable             *)
Iterable(val) == val.k \in {"list", "str", "dict"}

(* ------------------------------- state --------------------------------- *)
Clients == 1..NumClients

VARIABLES
    srv,          \* main(): "serving" inside serve_forever, "stopped" after it
    intr,         \* a KeyboardInterrupt has been delivered to the server
    backlog,      \* connections established and not yet accepted, in order
    cur,          \* the client whose connection the handler holds, 0 when none
    hpc,          \* where the handler is: idle, read, parse, start, open, build,
                  \*   poll, secs, flds, write, finish
    data,         \* handle(): the bytes rfile.read() has collected
    securities,   \* handle(): local
    fields,       \* handle(): local
    diag,         \* the exception the try block of handle() ended with, "" if none
    rargs,        \* the arguments resolve() was called with, <<>> when not called
    session,      \* resolve(): none, created, started, stopped
    rlog,         \* resolve(): the failure it printed (lines 31, 34), "" if none
    ret,          \* resolve(): the result under construction; what it returned
    evtype,       \* resolve(): the type of the event being read, "" between events
    secname,      \* resolve(): the security being read, "" between securities
    seen,         \* the <<security, field>> pairs delivered valid in data events
    prior,        \* those of them delivered in events before the current one
    lastev,       \* the type of the event nextEvent() returned last, "" if none
    badfld,       \* the field the current entry last delivered invalid, "" if none
    wrote,        \* what handle() wrote to wfile in this exchange
    hout,         \* how handle() ended: "", returned, raised, interrupted
    cpc,          \* sender(): init, connected, sent, recv, done, failed
    got,          \* sender(): what recv() has returned so far
    inb,          \* bytes in flight from client to server
    ineof,        \* the client has shut down its write half
    outb,         \* bytes in flight from server to client
    closed,       \* the server has closed its side of the connection
    pages,        \* aggregation alone: the pages of a response, the terminal one last
    perm,         \* aggregation alone: another order of the same pages
    mi,           \* aggregation alone: how many of the pages have been read
    ret1,         \* aggregation alone: ret after reading pages in the order given
    ret2          \* aggregation alone: ret after reading them in the order perm

qvars == <<data, securities, fields, diag, rargs>>
rvars == <<session, rlog, ret, evtype, secname, seen, prior, lastev, badfld>>
hvars == <<qvars, rvars, wrote, hout>>
cvars == <<cpc, got>>
wire == <<inb, ineof, outb, closed>>
mvars == <<pages, perm, mi, ret1, ret2>>
vars == <<srv, intr, backlog, cur, hpc, hvars, cvars, wire, mvars>>

(* the handler's locals before handle() has run                             *)
Fresh ==
    /\ data' = <<>>
    /\ securities' = None
    /\ fields' = None
    /\ diag' = ""
    /\ rargs' = <<>>
    /\ session' = "none"
    /\ rlog' = ""
    /\ ret' = None
    /\ evtype' = ""
    /\ secname' = ""
    /\ seen' = {}
    /\ prior' = {}
    /\ lastev' = ""
    /\ badfld' = ""
    /\ wrote' = <<>>
    /\ hout' = ""

(* nothing is being aggregated outside resolve()                            *)
MergeIdle ==
    /\ pages = <<>>
    /\ perm = <<>>
    /\ mi = 0
    /\ ret1 = None
    /\ ret2 = None

InitSystem ==
    /\ srv = "serving"
    /\ intr = FALSE
    /\ backlog = <<>>
    /\ cur = 0
    /\ hpc = "idle"
    /\ data = <<>>
    /\ securities = None
    /\ fields = None
    /\ diag = ""
    /\ rargs = <<>>
    /\ session = "none"
    /\ rlog = ""
    /\ ret = None
    /\ evtype = ""
    /\ secname = ""
    /\ seen = {}
    /\ prior = {}
    /\ lastev = ""
    /\ badfld = ""
    /\ wrote = <<>>
    /\ hout = ""
    /\ cpc = [c \in Clients |-> "init"]
    /\ got = [c \in Clients |-> <<>>]
    /\ inb = [c \in Clients |-> <<>>]
    /\ ineof = [c \in Clients |-> FALSE]
    /\ outb = [c \in Clients |-> <<>>]
    /\ closed = [c \in Clients |-> FALSE]

Init == InitSystem /\ MergeIdle

(* ------------------------- bbg_client.py sender() ---------------------- *)
(* line 9: connect; the kernel completes the handshake whether or not the  *)
(* server has called accept; a closed listening socket refuses.            *)
ClientConnect(c) ==
    /\ cpc[c] = "init"
    /\ IF srv = "serving"
       THEN /\ backlog' = Append(backlog, c)
            /\ cpc' = [cpc EXCEPT ![c] = "connected"]
       ELSE /\ backlog' = backlog
            /\ cpc' = [cpc EXCEPT ![c] = "failed"]
    /\ UNCHANGED <<mvars, srv, intr, cur, hpc, hvars, got, wire>>

(* line 10: sendall(content)                                                *)
ClientSendall(c, b) ==
    /\ cpc[c] = "connected"
    /\ inb' = [inb EXCEPT ![c] = b]
    /\ cpc' = [cpc EXCEPT ![c] = "sent"]
    /\ UNCHANGED <<mvars, srv, intr, backlog, cur, hpc, hvars, got, ineof, outb, closed>>

(* a sender that goes on to recv without shutting down its write half       *)
ClientNoShutdown(c) ==
    /\ cpc[c] = "sent"
    /\ cpc' = [cpc EXCEPT ![c] = "recv"]
    /\ UNCHANGED <<mvars, srv, intr, backlog, cur, hpc, hvars, got, wire>>

(* line 12: shutdown(SHUT_WR)                                               *)
ClientShutdown(c) ==
    /\ cpc[c] = "sent"
    /\ ineof' = [ineof EXCEPT ![c] = TRUE]
    /\ cpc' = [cpc EXCEPT ![c] = "recv"]
    /\ UNCHANGED <<mvars, srv, intr, backlog, cur, hpc, hvars, got, inb, outb, closed>>

(* lines 13-17: recv returned data                                          *)
ClientRecv(c) ==
    /\ cpc[c] = "recv"
    /\ outb[c] # <<>>
    /\ got' = [got EXCEPT ![c] = got[c] \o outb[c]]
    /\ outb' = [outb EXCEPT ![c] = <<>>]
    /\ UNCHANGED <<mvars, srv, intr, backlog, cur, hpc, hvars, cpc, inb, ineof, closed>>

(* a sender that connects again when the peer closed without a reply        *)
ClientRecvRetry(c) ==
    /\ cpc[c] = "recv"
    /\ outb[c] = <<>>
    /\ closed[c]
    /\ cpc' = [cpc EXCEPT ![c] = IF got[c] = <<>> /\ srv = "serving" THEN "init" ELSE "done"]
    /\ closed' = [closed EXCEPT ![c] = got[c] # <<>> \/ srv # "serving"]
    /\ ineof' = [ineof EXCEPT ![c] = got[c] # <<>> \/ srv # "serving"]
    /\ UNCHANGED <<mvars, srv, intr, backlog, cur, hpc, hvars, got, inb, outb>>

(* lines 14-18: recv returned nothing, the peer has closed                  *)
ClientRecvEOF(c) ==
    /\ cpc[c] = "recv"
    /\ outb[c] = <<>>
    /\ closed[c]
    /\ cpc' = [cpc EXCEPT ![c] = "done"]
    /\ UNCHANGED <<mvars, srv, intr, backlog, cur, hpc, hvars, got, wire>>

(* ---------------------- bbg_server.py main() --------------------------- *)
(* socketserver.TCPServer.serve_forever accepts a connection and runs the   *)
(* handler to its end in the same thread before it looks at the listening   *)
(* socket again.                                                            *)
AcceptorFree == hpc = "idle"

(* a server loop that an exception out of handle() ends                      *)
AcceptorStops(h) == IF h = "raised" THEN "stopped" ELSE srv

(* a server loop that goes on serving after every handler                    *)
AcceptorResumes(h) == "serving"

(* serve_forever after a handler has ended: an Exception out of handle() is *)
(* caught and reported by the server (handle_error), the loop goes on.      *)
AcceptorAfter(h) == srv

Accept ==
    /\ srv = "serving"
    /\ AcceptorFree
    /\ backlog # <<>>
    /\ cur' = Head(backlog)
    /\ backlog' = Tail(backlog)
    /\ hpc' = "read"
    /\ Fresh
    /\ UNCHANGED <<mvars, srv, intr, cvars, wire>>

(* KeyboardInterrupt (lines 117-118): it ends serve_forever and whatever    *)
(* handler is running; leaving the with block closes the listening socket   *)
(* and with it the connections nobody accepted.                             *)
Interrupt ==
    /\ srv = "serving"
    /\ srv' = "stopped"
    /\ intr' = TRUE
    /\ backlog' = <<>>
    /\ closed' = [c \in Clients |->
                     closed[c] \/ (\E i \in 1..Len(backlog) : backlog[i] = c)]
    /\ IF hpc \in {"idle", "finish"}
       THEN UNCHANGED <<hpc, hout, session>>
       ELSE /\ hpc' = "finish"
            /\ hout' = "interrupted"
            /\ session' = IF hpc \in {"poll", "secs", "flds"} THEN "stopped" ELSE session
    /\ UNCHANGED <<mvars, cur, qvars, rlog, ret, evtype, secname, seen, prior, lastev, badfld, wrote,
                   cvars, inb, ineof, outb>>

(* -------------------- ServerHandler.handle(), line 77 ------------------- *)
(* rfile.read() collects what arrives and returns only at end of stream     *)
ReadChunk ==
    /\ hpc = "read"
    /\ inb[cur] # <<>>
    /\ data' = data \o inb[cur]
    /\ inb' = [inb EXCEPT ![cur] = <<>>]
    /\ UNCHANGED <<mvars, srv, intr, backlog, cur, hpc, securities, fields, diag, rargs,
                   rvars, wrote, hout, cvars, ineof, outb, closed>>

(* a read that returns once bytes have come and no more are pending         *)
ReadEOFEarly ==
    /\ hpc = "read"
    /\ inb[cur] = <<>>
    /\ ineof[cur] \/ data # <<>>
    /\ hpc' = "parse"
    /\ UNCHANGED <<mvars, srv, intr, backlog, cur, hvars, cvars, wire>>

ReadEOF ==
    /\ hpc = "read"
    /\ inb[cur] = <<>>
    /\ ineof[cur]
    /\ hpc' = "parse"
    /\ UNCHANGED <<mvars, srv, intr, backlog, cur, hvars, cvars, wire>>

(* lines 78-106: decode, extract, validate; then return, raise or call      *)
(* resolve(securities, fields)                                              *)
Parse ==
    /\ hpc = "parse"
    /\ LET t == TryBlock(data) IN
         /\ diag' = t.exc
         /\ securities' = t.securities
         /\ fields' = t.fields
         /\ IF t.raised
            THEN hpc' = "finish" /\ hout' = "raised" /\ rargs' = rargs
            ELSE IF SkipQuery(t.securities, t.fields)
            THEN hpc' = "finish" /\ hout' = "returned" /\ rargs' = rargs
            ELSE hpc' = "start" /\ hout' = hout
                 /\ rargs' = <<t.securities, t.fields>>
    /\ UNCHANGED <<mvars, srv, intr, backlog, cur, data, rvars, wrote, cvars, wire>>

(* --------------------------- resolve() ---------------------------------- *)
(* lines 25-32: the session is created and started; a session that does not *)
(* start makes resolve print and return (None) at line 32                   *)
SessionStart(ok) ==
    /\ hpc = "start"
    /\ IF ok
       THEN session' = "started" /\ hpc' = "open" /\ rlog' = rlog
       ELSE session' = "created" /\ hpc' = "write"
            /\ rlog' = "Cannot start blpapi session"
    /\ UNCHANGED <<mvars, srv, intr, backlog, cur, qvars, ret, evtype, secname, seen, prior, lastev, badfld,
                   wrote, hout, cvars, wire>>

(* lines 33-35: a service that does not open makes resolve print and return *)
OpenService(ok) ==
    /\ hpc = "open"
    /\ IF ok
       THEN hpc' = "build" /\ rlog' = rlog
       ELSE hpc' = "write" /\ rlog' = "Cannot open //blp/refdata from session"
    /\ UNCHANGED <<mvars, srv, intr, backlog, cur, qvars, session, ret, evtype, secname, lastev, badfld,
                   seen, prior, wrote, hout, cvars, wire>>

(* lines 36-45: the request is built and sent; the loops raise on an        *)
(* argument that is not iterable and the library may raise on its own       *)
BuildRequest(ok) ==
    /\ hpc = "build"
    /\ ok => Iterable(rargs[1]) /\ Iterable(rargs[2])
    /\ IF ok
       THEN hpc' = "poll" /\ ret' = Dict(<<>>) /\ hout' = hout
       ELSE hpc' = "finish" /\ ret' = ret /\ hout' = "raised"
    /\ UNCHANGED <<mvars, srv, intr, backlog, cur, qvars, session, rlog, evtype, secname,
                   seen, prior, lastev, badfld, wrote, cvars, wire>>

(* lines 48-50: the next event; one of another type is skipped              *)
NextEvent(type) ==
    /\ hpc = "poll"
    /\ IF IsData(type)
       THEN hpc' = "secs" /\ evtype' = type
       ELSE hpc' = hpc /\ evtype' = evtype
    /\ lastev' = type
    /\ UNCHANGED <<mvars, srv, intr, backlog, cur, qvars, session, rlog, ret, secname, seen,
                   prior, badfld, wrote, hout, cvars, wire>>

(* lines 53-57: the next securityData entry of the event                    *)
NextSec(name) ==
    /\ hpc = "secs"
    /\ ret' = EnterSec(ret, name)
    /\ secname' = name
    /\ hpc' = "flds"
    /\ UNCHANGED <<mvars, srv, intr, backlog, cur, qvars, session, rlog, evtype, seen, prior, lastev, badfld,
                   wrote, hout, cvars, wire>>

(* lines 58-64: the next field element of the entry                         *)
NextField(fld) ==
    /\ hpc = "flds"
    /\ ret' = Put(ret, secname, SetField(Get(ret, secname), fld))
    /\ seen' = IF fld.valid THEN seen \cup {<<secname, fld.name>>} ELSE seen
    /\ badfld' = IF fld.valid THEN badfld ELSE fld.name
    /\ UNCHANGED <<mvars, srv, intr, backlog, cur, hpc, qvars, session, rlog, evtype, secname,
                   prior, lastev, wrote, hout, cvars, wire>>

(* line 58: the entry has no more field elements                            *)
EndFields ==
    /\ hpc = "flds"
    /\ secname' = ""
    /\ badfld' = ""
    /\ hpc' = "secs"
    /\ UNCHANGED <<mvars, srv, intr, backlog, cur, qvars, session, rlog, ret, evtype, seen,
                   prior, lastev, wrote, hout, cvars, wire>>

(* lines 65-69: the event has no more entries; after the terminal one the   *)
(* loop is left, the finally clause stops the session, resolve returns ret  *)
EndEvent ==
    /\ hpc = "secs"
    /\ evtype' = ""
    /\ prior' = seen
    /\ IF IsTerminal(evtype)
       THEN session' = "stopped" /\ hpc' = "write"
       ELSE session' = session /\ hpc' = "poll"
    /\ UNCHANGED <<mvars, srv, intr, backlog, cur, qvars, rlog, ret, secname, seen, lastev, badfld, wrote,
                   hout, cvars, wire>>

(* lines 46-68: nextEvent or the reading of a message raises; the finally   *)
(* clause stops the session and the exception leaves resolve and handle     *)
PollRaise ==
    /\ hpc \in {"poll", "secs", "flds"}
    /\ session' = "stopped"
    /\ hpc' = "finish"
    /\ hout' = "raised"
    /\ UNCHANGED <<mvars, srv, intr, backlog, cur, qvars, rlog, ret, evtype, secname, seen,
                   prior, lastev, badfld, wrote, cvars, wire>>

(* a handler that also writes what it has before it calls resolve()         *)
ReplyEarly ==
    /\ hpc \in {"start", "write"}
    /\ hpc = "start" => wrote = <<>>
    /\ wrote' = Dumps(ret)
    /\ outb' = [outb EXCEPT ![cur] = outb[cur] \o Dumps(ret)]
    /\ hpc' = IF hpc = "write" THEN "finish" ELSE hpc
    /\ hout' = IF hpc = "write" THEN "returned" ELSE hout
    /\ UNCHANGED <<mvars, srv, intr, backlog, cur, qvars, rvars, cvars, inb, ineof, closed>>

(* lines 109-111: json.dumps(ret) is written to the connection              *)
Reply ==
    /\ hpc = "write"
    /\ wrote' = Dumps(ret)
    /\ outb' = [outb EXCEPT ![cur] = outb[cur] \o Dumps(ret)]
    /\ hpc' = "finish"
    /\ hout' = "returned"
    /\ UNCHANGED <<mvars, srv, intr, backlog, cur, qvars, rvars, cvars, inb, ineof, closed>>

(* the handler has ended: the server closes the connection                  *)
(* (shutdown_request) and the handler's locals are gone                     *)
Finish ==
    /\ hpc = "finish"
    /\ closed' = [closed EXCEPT ![cur] = TRUE]
    /\ srv' = AcceptorAfter(hout)
    /\ cur' = 0
    /\ hpc' = "idle"
    /\ Fresh
    /\ UNCHANGED <<mvars, intr, backlog, cvars, inb, ineof, outb>>

(* the whole system: every client, one request of each kind                 *)
Next ==
    \/ \E c \in Clients : ClientConnect(c)
    \/ \E c \in Clients, b \in Requests : ClientSendall(c, b)
    \/ \E c \in Clients : ClientShutdown(c)
    \/ \E c \in Clients : ClientRecv(c)
    \/ \E c \in Clients : ClientRecvEOF(c)
    \/ Accept
    \/ Interrupt
    \/ ReadChunk
    \/ ReadEOF
    \/ Parse
    \/ \E ok \in BOOLEAN : SessionStart(ok)
    \/ \E ok \in BOOLEAN : OpenService(ok)
    \/ \E ok \in BOOLEAN : BuildRequest(ok)
    \/ \E type \in EventTypes : NextEvent(type)
    \/ \E name \in WireSecNames : NextSec(name)
    \/ \E fld \in WireFieldElems : NextField(fld)
    \/ EndFields
    \/ EndEvent
    \/ PollRaise
    \/ Reply
    \/ Finish

Spec == Init /\ [][Next]_vars

(* the whole system with its scheduling: every sender is a running process  *)
(* and the server is one running thread, so each takes its next step when   *)
(* it can; the network delivers; an entry and an event have finitely many   *)
(* elements and the backend comes to deliver the terminal event.  Nothing   *)
(* says that an interrupt or a backend failure ever happens.  The requests  *)
(* are one that is answered, one that makes handle() raise and one that     *)
(* makes it return early.                                                   *)
LiveRequests ==
    { ListBody(<<"E1">>, <<"F1">>),
      <<W("not"), W("json")>>,
      ListBody(<<>>, <<"F1">>) }

ClientStep(c) ==
    \/ ClientConnect(c)
    \/ \E b \in LiveRequests : ClientSendall(c, b)
    \/ ClientShutdown(c)
    \/ ClientRecv(c)
    \/ ClientRecvEOF(c)

(* the steps of the server's thread other than Parse                        *)
ServerStep ==
    \/ Accept
    \/ ReadChunk
    \/ ReadEOF
    \/ \E ok \in BOOLEAN : SessionStart(ok)
    \/ \E ok \in BOOLEAN : OpenService(ok)
    \/ \E ok \in BOOLEAN : BuildRequest(ok)
    \/ \E type \in EventTypes : NextEvent(type)
    \/ \E name \in WireSecNames : NextSec(name)
    \/ \E fld \in WireFieldElems : NextField(fld)
    \/ EndFields
    \/ EndEvent
    \/ Reply
    \/ Finish

NextLive ==
    \/ \E c \in Clients : ClientStep(c)
    \/ ServerStep
    \/ Parse
    \/ Interrupt
    \/ PollRaise

(* Parse can always be taken where the handler stands before it, so that    *)
(* its fairness is that the handler does not stand there for ever           *)
SpecLive ==
    /\ Init /\ [][NextLive]_vars
    /\ \A c \in Clients : WF_vars(ClientStep(c))
    /\ WF_vars(ServerStep)
    /\ []<>(hpc # "parse")
    /\ SF_vars(NextEvent("RESPONSE"))
    /\ SF_vars(EndFields)
    /\ SF_vars(EndEvent)

(* one exchange: a single run of sender() against the server, with every    *)
(* request body                                                             *)
NextExchange ==
    \/ ClientConnect(1)
    \/ \E b \in Bodies : ClientSendall(1, b)
    \/ ClientShutdown(1)
    \/ ClientRecv(1)
    \/ ClientRecvEOF(1)
    \/ Accept
    \/ Interrupt
    \/ ReadChunk
    \/ ReadEOF
    \/ Parse
    \/ \E ok \in BOOLEAN : SessionStart(ok)
    \/ \E ok \in BOOLEAN : OpenService(ok)
    \/ \E ok \in BOOLEAN : BuildRequest(ok)
    \/ \E type \in EventTypes : NextEvent(type)
    \/ \E name \in WireSecNames : NextSec(name)
    \/ \E fld \in WireFieldElems : NextField(fld)
    \/ EndFields
    \/ EndEvent
    \/ PollRaise
    \/ Reply
    \/ Finish

SpecExchange == Init /\ [][NextExchange]_vars

(* resolve() alone: entered at line 106 with a validated query, followed    *)
(* until it returns or raises, with everything the backend can deliver      *)
InitResolve ==
    /\ srv = "serving"
    /\ intr = FALSE
    /\ backlog = <<>>
    /\ cur = 1
    /\ hpc = "start"
    /\ \E f \in FieldLists :
         /\ data = ListBody(<<"E1", "E2">>, f)
         /\ securities = StrList(<<"E1", "E2">>)
         /\ fields = StrList(f)
         /\ rargs = <<StrList(<<"E1", "E2">>), StrList(f)>>
    /\ diag = ""
    /\ session = "none"
    /\ rlog = ""
    /\ ret = None
    /\ evtype = ""
    /\ secname = ""
    /\ seen = {}
    /\ prior = {}
    /\ lastev = ""
    /\ badfld = ""
    /\ wrote = <<>>
    /\ hout = ""
    /\ cpc = [c \in Clients |-> IF c = 1 THEN "recv" ELSE "init"]
    /\ got = [c \in Clients |-> <<>>]
    /\ inb = [c \in Clients |-> <<>>]
    /\ ineof = [c \in Clients |-> c = 1]
    /\ outb = [c \in Clients |-> <<>>]
    /\ closed = [c \in Clients |-> FALSE]
    /\ MergeIdle

NextResolve ==
    \/ \E ok \in BOOLEAN : SessionStart(ok)
    \/ \E ok \in BOOLEAN : OpenService(ok)
    \/ \E ok \in BOOLEAN : BuildRequest(ok)
    \/ \E type \in EventTypes : NextEvent(type)
    \/ \E name \in SecNames : NextSec(name)
    \/ \E fld \in FieldElems : NextField(fld)
    \/ EndFields
    \/ EndEvent
    \/ PollRaise

SpecResolve == InitResolve /\ [][NextResolve]_vars

(* the aggregation of lines 45-66 alone: up to MaxPages partial pages and a *)
(* terminal page, read once in the order given and once in another order    *)
InitMerge ==
    /\ InitSystem
    /\ \E n \in 1..MaxPages :
         /\ \E ps \in [1..n -> Pages], t \in LastPages : pages = ps \o <<t>>
         /\ perm \in Orders(n)
    /\ mi = 0
    /\ ret1 = Dict(<<>>)
    /\ ret2 = Dict(<<>>)

MergeStep ==
    /\ mi < Len(pages)
    /\ mi' = mi + 1
    /\ ret1' = MergePage(ret1, pages[mi + 1])
    /\ ret2' = MergePage(ret2, pages[perm[mi + 1]])
    /\ UNCHANGED <<srv, intr, backlog, cur, hpc, hvars, cvars, wire, pages, perm>>

NextMerge == MergeStep

SpecMerge == InitMerge /\ [][NextMerge]_vars

(* resolve() against a backend that never delivers the terminal event and   *)
(* never raises; the handler's thread keeps running, so a step that can be  *)
(* taken is eventually taken, and an entry and an event come to their end   *)
NextPolling ==
    \/ \E ok \in BOOLEAN : SessionStart(ok)
    \/ \E ok \in BOOLEAN : OpenService(ok)
    \/ \E ok \in BOOLEAN : BuildRequest(ok)
    \/ \E type \in EventTypes \ {"RESPONSE"} : NextEvent(type)
    \/ \E name \in SecNames : NextSec(name)
    \/ \E fld \in WireFieldElems : NextField(fld)
    \/ EndFields
    \/ EndEvent

SpecPolling ==
    /\ InitResolve /\ [][NextPolling]_vars
    /\ WF_vars(NextPolling) /\ SF_vars(EndFields) /\ SF_vars(EndEvent)

(* ------------------------------ properties ------------------------------ *)
(* the handler holds a connection and is past reading and parsing           *)
Handled == cur # 0 /\ hpc \notin {"read", "parse"}

(* nothing has been written to the handled connection                       *)
NoReply == wrote = <<>> /\ outb[cur] = <<>> /\ got[cur] = <<>>

(* resolve() has not been entered                                           *)
NoCall == rargs = <<>> /\ session = "none"

(* what a request text says, read off the decoded value                     *)
WellShaped(toks) ==
    /\ Loads(toks).ok
    /\ LET v == Loads(toks).val IN
         \/ v.k = "list" /\ Len(v.v) = 2
         \/ v.k = "dict" /\ HasKey(v, "securities") /\ HasKey(v, "fields")

EntitiesOf(toks) ==
    LET v == Loads(toks).val IN IF v.k = "list" THEN v.v[1] ELSE Get(v, "securities")

FieldsOf(toks) ==
    LET v == Loads(toks).val IN IF v.k = "list" THEN v.v[2] ELSE Get(v, "fields")

IsStrSeq(x) == x.k = "list" /\ \A i \in 1..Len(x.v) : x.v[i].k = "str"

HasField(r, sec, fld) == HasKey(r, sec) /\ HasKey(Get(r, sec), fld)

(* the phases of handle() in the order of its text                          *)
PhaseRank(pc) ==
    CASE pc = "idle" -> 0
      [] pc = "read" -> 1
      [] pc = "parse" -> 2
      [] pc = "start" -> 3
      [] pc = "open" -> 4
      [] pc = "build" -> 5
      [] pc \in {"poll", "secs", "flds"} -> 6
      [] pc = "write" -> 7
      [] pc = "finish" -> 8

(* handle() ended without reaching its reply: it raised, was cut off, or    *)
(* returned at line 103 before the resolve() call                           *)
EndedAborted ==
    /\ cur # 0 /\ hpc = "finish"
    /\ hout \in {"raised", "interrupted"} \/ (hout = "returned" /\ rargs = <<>>)

(* two results are the same mapping, whatever the order of their keys       *)
KeysOf(d) == {d.v[i].key : i \in 1..Len(d.v)}

SameMapping(a, b) ==
    /\ KeysOf(a) = KeysOf(b)
    /\ \A sec \in KeysOf(a) :
         /\ KeysOf(Get(a, sec)) = KeysOf(Get(b, sec))
         /\ \A fld \in KeysOf(Get(a, sec)) :
              Get(Get(a, sec), fld) = Get(Get(b, sec), fld)

(* two partial pages carry the same field of the same security, both valid, *)
(* with different values                                                    *)
Conflict ==
    \E i, j \in 1..(Len(pages) - 1) :
        /\ pages[i].security = pages[j].security
        /\ pages[i].fld.name = pages[j].fld.name
        /\ pages[i].fld.valid /\ pages[j].fld.valid
        /\ <<pages[i].fld.array, pages[i].fld.vals>>
             # <<pages[j].fld.array, pages[j].fld.vals>>

(* the value a page carries, as ret holds it                                *)
PageValue(page) == Get(SetField(Dict(<<>>), page.fld), page.fld.name)

(* C1: a request in list or mapping form whose entities or fields is not a  *)
(* sequence of strings is aborted: resolve() is never called for it and no  *)
(* reply byte is written.                                                   *)
C1_NonStringAborted ==
    (Handled /\ WellShaped(data)
        /\ ~(IsStrSeq(EntitiesOf(data)) /\ IsStrSeq(FieldsOf(data))))
    => (NoCall /\ NoReply)

(* C2: when resolve() fails because the session does not start or the       *)
(* service does not open, no reply byte is written to the connection.       *)
C2_ResolverFailureNoReply == (cur # 0 /\ rlog # "") => NoReply

(* C3: a connection waiting to be accepted can be accepted whatever the     *)
(* handler of an earlier connection is doing.                               *)
C3_IndependentDispatch == (srv = "serving" /\ backlog # <<>>) => ENABLED Accept

(* C4: once resolve() has exited, by return or by exception, a session it   *)
(* started has been stopped.                                                *)
C4_SessionReleased == hpc \in {"write", "finish"} => session # "started"

(* C5: a well-shaped request whose entities list or fields list is empty is *)
(* aborted: resolve() is never called and no reply byte is written.         *)
C5_EmptyListAborted ==
    (Handled /\ WellShaped(data)
        /\ (EntitiesOf(data) = List(<<>>) \/ FieldsOf(data) = List(<<>>)))
    => (NoCall /\ NoReply /\ hpc = "finish")

C5_Witness ==
    /\ hpc = "finish" /\ hout = "returned" /\ diag = ""
    /\ data = ListBody(<<>>, <<"F1">>)
    /\ NoCall /\ NoReply

(* C6: a request rejected at shape resolution (a sequence of length other   *)
(* than two, a mapping without securities or without fields, a value that   *)
(* is neither) is aborted: no resolve() call, no reply byte.                *)
C6_BadShapeAborted ==
    (Handled /\ Loads(data).ok /\ ~WellShaped(data))
    => (NoCall /\ NoReply /\ hpc = "finish")

C6_Witness ==
    /\ hpc = "finish" /\ hout = "returned" /\ diag = "ValueError"
    /\ Loads(data).val.k = "list" /\ Len(Loads(data).val.v) = 3
    /\ NoCall /\ NoReply

(* C7: a body that is not a valid JSON text, the empty body included, ends  *)
(* the exchange with the exception: resolve() is never called and no reply  *)
(* byte is written.                                                         *)
C7_MalformedAborted ==
    (Handled /\ data \in Malformed)
    => (NoCall /\ NoReply /\ hpc = "finish" /\ hout \in {"raised", "interrupted"})

C7_Witness ==
    /\ hpc = "finish" /\ hout = "raised" /\ diag = "JSONDecodeError"
    /\ data = <<>> /\ ineof[cur]
    /\ NoCall /\ NoReply

(* C8: an exchange that fails ends alone: the acceptor stops only on an     *)
(* interrupt, and whenever the handler is idle the server is in the state   *)
(* it started in and accepts the next waiting connection.                   *)
C8_AbortIsLocal ==
    /\ srv = "stopped" => intr
    /\ hpc = "idle" =>
         /\ cur = 0 /\ data = <<>> /\ securities = None /\ fields = None
         /\ diag = "" /\ rargs = <<>> /\ session = "none" /\ rlog = ""
         /\ ret = None /\ wrote = <<>> /\ hout = ""
    /\ (srv = "serving" /\ hpc = "idle" /\ backlog # <<>>) => ENABLED Accept

C8_Witness ==
    /\ srv = "serving" /\ cur # 0
    /\ hpc = "finish" /\ hout = "returned" /\ ret.k = "dict" /\ wrote = Dumps(ret)
    /\ \E c \in Clients :
         c # cur /\ closed[c] /\ cpc[c] = "done" /\ got[c] = <<>> /\ outb[c] = <<>>

(* C9: the result holds, for every security, every field delivered valid    *)
(* for it in any event so far; a later event adds to a security's fields    *)
(* and never drops one.                                                     *)
C9_FieldUnion ==
    ret.k = "dict" => \A p \in seen : HasField(ret, p[1], p[2])

C9_Witness ==
    /\ hpc = "secs" /\ evtype = "RESPONSE"
    /\ <<"A", "X">> \in prior
    /\ <<"A", "Y">> \in seen \ prior
    /\ HasField(ret, "A", "X") /\ HasField(ret, "A", "Y")

(* C10: a valid request in sequence form and the mapping-form request with  *)
(* the same entities and fields call resolve() with the same arguments, and *)
(* the reply is the text of what resolve() returned.                        *)
C10_ShapeEquivalence ==
    \A e \in EntityLists, f \in FieldLists :
        (Handled /\ hout # "interrupted"
            /\ data \in {ListBody(e, f), MapBody(e, f), MapBodyRev(e, f)})
        => /\ rargs = <<StrList(e), StrList(f)>>
           /\ (hpc = "finish" /\ hout = "returned") => wrote = Dumps(ret)

C10_Witness ==
    /\ hpc = "finish" /\ hout = "returned" /\ ret.k = "dict"
    /\ data = MapBodyRev(<<"E1", "E2">>, <<"F1">>)
    /\ rargs = <<StrList(<<"E1", "E2">>), StrList(<<"F1">>)>>
    /\ wrote = Dumps(ret)

(* C11: a field element the backend marks invalid puts nothing into the     *)
(* security's mapping: every field the result holds was delivered valid     *)
(* for that security and is a string or a list of strings, never a null or  *)
(* a marker; the valid fields of the same event are all there.              *)
C11_InvalidOmitted ==
    ret.k = "dict" =>
      /\ \A sec \in SecNames, fld \in FldNames :
           HasField(ret, sec, fld) =>
             /\ <<sec, fld>> \in seen
             /\ \/ Get(Get(ret, sec), fld).k = "str"
                \/ IsStrSeq(Get(Get(ret, sec), fld))
      /\ \A p \in seen \ prior : HasField(ret, p[1], p[2])

C11_Witness ==
    /\ hpc = "flds" /\ secname = "A" /\ badfld = "Y"
    /\ <<"A", "Y">> \notin seen
    /\ <<"A", "X">> \in seen \ prior
    /\ HasField(ret, "A", "X") /\ ~HasField(ret, "A", "Y")

(* C12: when the backend delivers only partial pages and timeouts, never   *)
(* the terminal page, resolve() eventually stops polling and is left.       *)
C12_PollingGivesUp == <>(hpc \in {"write", "finish"})

(* C13, as stated: a mapping that has the keys securities and fields and   *)
(* one more key is rejected: resolve() is never called and no reply byte    *)
(* is written.                                                              *)
C13_ExtraKeyRejected ==
    (Handled /\ data \in ExtraKey) => (NoCall /\ NoReply)

(* C13, amended: a mapping is accepted when it has the keys securities and  *)
(* fields, whatever other keys it has: the other keys are ignored and       *)
(* resolve() is called with the values of the two; a mapping that lacks     *)
(* one of the two is rejected with no resolve() call and no reply.          *)
C13_ExtraKeyIgnored ==
    (Handled /\ hout # "interrupted" /\ Loads(data).ok /\ Loads(data).val.k = "dict")
    => LET v == Loads(data).val IN
         IF HasKey(v, "securities") /\ HasKey(v, "fields")
         THEN /\ securities = Get(v, "securities") /\ fields = Get(v, "fields")
              /\ diag \in {"", "AssertionError"}
              /\ data \in ExtraKey =>
                    /\ diag = ""
                    /\ rargs = <<StrList(<<"E1">>), StrList(<<"F1">>)>>
         ELSE NoCall /\ NoReply /\ diag = "KeyError"

C13_Witness ==
    /\ hpc = "finish" /\ hout = "returned" /\ data \in ExtraKey
    /\ rargs = <<StrList(<<"E1">>), StrList(<<"F1">>)>>
    /\ ret.k = "dict" /\ wrote = Dumps(ret) /\ wrote # <<>>

(* C14: sender() goes through connect, sendall, shutdown of the write      *)
(* half, recv until recv returns nothing, and ends: the request is written  *)
(* whole and once, before the half-close and never after it; nothing is     *)
(* read before the half-close; the sender ends on the empty read and never  *)
(* connects a second time.                                                  *)
C14_RequesterOrder ==
    [][\A c \in Clients :
         /\ cpc'[c] # cpc[c] =>
               <<cpc[c], cpc'[c]>> \in
                 {<<"init", "connected">>, <<"init", "failed">>,
                  <<"connected", "sent">>, <<"sent", "recv">>, <<"recv", "done">>}
         /\ (inb'[c] # inb[c] /\ inb'[c] # <<>>) =>
               /\ cpc[c] = "connected" /\ cpc'[c] = "sent"
               /\ ~ineof[c] /\ inb[c] = <<>> /\ inb'[c] \in Requests
         /\ ineof'[c] # ineof[c] =>
               cpc[c] = "sent" /\ cpc'[c] = "recv" /\ ineof'[c]
         /\ got'[c] # got[c] => cpc[c] = "recv" /\ ineof[c]
         /\ (cpc[c] = "recv" /\ cpc'[c] = "done") => outb[c] = <<>> /\ closed[c]
         /\ ((\E i \in 1..Len(backlog') : backlog'[i] = c)
               /\ ~(\E i \in 1..Len(backlog) : backlog[i] = c)) => cpc[c] = "init"
    ]_vars

C14_Witness ==
    \E c \in Clients :
        /\ cpc[c] = "done" /\ ineof[c] /\ closed[c]
        /\ got[c] # <<>> /\ inb[c] = <<>> /\ outb[c] = <<>>

(* C15: from the interrupt on the server has left serve_forever and the    *)
(* listening socket is closed: no connection waits to be accepted, the      *)
(* handler takes no new connection, and a client that connects is refused;  *)
(* this holds whether the interrupt found the handler idle or at work.      *)
C15_InterruptStops ==
    [][intr' =>
         /\ srv' = "stopped"
         /\ backlog' = <<>>
         /\ cur' \in {cur, 0}
         /\ ~intr => /\ cur' = cur
                     /\ \A i \in 1..Len(backlog) : closed'[backlog[i]]
         /\ \A c \in Clients :
               (cpc[c] = "init" /\ cpc'[c] # "init") => (intr /\ cpc'[c] = "failed")
    ]_vars

C15_Witness ==
    /\ intr /\ srv = "stopped" /\ backlog = <<>>
    /\ cur # 0 /\ hpc = "finish" /\ hout = "interrupted"
    /\ \E c \in Clients : c # cur /\ cpc[c] = "failed"

(* C16: within one exchange handle() moves forward only: read, decode and  *)
(* validate, resolve, reply, end.  The reply is written in one step, once,  *)
(* to a connection nothing was written to before, and only after resolve()  *)
(* was called and has returned; an exchange that ended without reaching the *)
(* reply has written nothing.                                               *)
C16_PhaseOrder ==
    [][/\ hpc' # hpc =>
            IF hpc = "finish" THEN hpc' = "idle"
            ELSE IF hpc = "idle" THEN hpc' = "read"
            ELSE PhaseRank(hpc') >= PhaseRank(hpc)
       /\ wrote' # wrote =>
            \/ /\ hpc = "write" /\ hpc' = "finish" /\ wrote = <<>>
               /\ rargs # <<>> /\ session # "none" /\ evtype = ""
               /\ wrote' = Dumps(ret) /\ ret' = ret
            \/ hpc = "finish" /\ hpc' = "idle" /\ wrote' = <<>>
       /\ \A c \in Clients :
            (outb'[c] # outb[c] /\ outb'[c] # <<>>) =>
               /\ c = cur /\ hpc = "write" /\ wrote = <<>>
               /\ outb[c] = <<>> /\ got[c] = <<>> /\ outb'[c] = wrote'
       /\ EndedAborted' => NoReply'
    ]_vars

C16_Witness ==
    /\ cur # 0 /\ hpc = "finish" /\ hout = "returned"
    /\ rargs # <<>> /\ session = "stopped" /\ ret.k = "dict" /\ ret.v # <<>>
    /\ wrote = Dumps(ret) /\ outb[cur] = wrote

(* C17: the polling loop sorts every event it takes: a PARTIAL_RESPONSE or *)
(* RESPONSE event is read and its valid fields are in the result when the   *)
(* event ends; an event of another type changes nothing and polling goes    *)
(* on; the loop is left by return only at the end of a RESPONSE event, the  *)
(* first one taken, and after that no event is taken and the result stays.  *)
C17_EventClasses ==
    [][/\ (hpc = "poll" /\ hpc' # "finish" /\ <<hpc, lastev>>' # <<hpc, lastev>>) =>
            /\ ret' = ret /\ seen' = seen /\ session' = session
            /\ IF IsData(lastev')
               THEN hpc' = "secs" /\ evtype' = lastev'
               ELSE hpc' = "poll" /\ evtype' = "" /\ lastev' = "TIMEOUT"
       /\ (hpc = "secs" /\ hpc' \in {"poll", "write"}) =>
            /\ evtype = lastev /\ IsData(evtype)
            /\ ret' = ret
            /\ \A q \in seen : HasField(ret, q[1], q[2])
            /\ hpc' = "write" <=> evtype = "RESPONSE"
       /\ (hpc \in {"poll", "secs", "flds"} /\ hpc' = "write") =>
            /\ hpc = "secs" /\ lastev = "RESPONSE" /\ session' = "stopped"
       /\ (hpc \in {"write", "finish"} /\ hpc' # "idle") =>
            /\ lastev' = lastev /\ ret' = ret /\ seen' = seen
    ]_vars

C17_Witness ==
    /\ hpc = "write" /\ rlog = "" /\ session = "stopped"
    /\ lastev = "RESPONSE" /\ evtype = ""
    /\ seen = {<<"A", "X">>, <<"B", "Y">>}
    /\ HasField(ret, "A", "X") /\ HasField(ret, "B", "Y")

(* C18, as stated: whatever the order in which the partial pages of a      *)
(* response come, the final result is the same mapping, also when two of    *)
(* them carry the same field of the same security with different values.    *)
C18_OrderIndependent ==
    mi = Len(pages) => SameMapping(ret1, ret2)

(* C18, amended: the final result is the same mapping in every order of the *)
(* partial pages when no two of them carry the same field of the same       *)
(* security with different values; in every case a field holds the value    *)
(* of the last page read that carried it valid.                             *)
C18_OrderIndependentNoConflict ==
    mi = Len(pages) =>
      /\ ~Conflict => SameMapping(ret1, ret2)
      /\ \A i \in 1..Len(pages) :
           (/\ pages[i].fld.valid
            /\ \A j \in (i + 1)..Len(pages) :
                 ~(/\ pages[j].security = pages[i].security
                   /\ pages[j].fld.name = pages[i].fld.name
                   /\ pages[j].fld.valid))
           => /\ HasField(ret1, pages[i].security, pages[i].fld.name)
              /\ Get(Get(ret1, pages[i].security), pages[i].fld.name)
                   = PageValue(pages[i])

C18_Witness ==
    /\ Len(pages) = 3 /\ mi = 3 /\ perm = <<2, 1, 3>>
    /\ pages[1].security = "B" /\ pages[2].security = "A"
    /\ pages[1].fld.valid /\ pages[2].fld.valid /\ pages[3].fld.valid
    /\ ~Conflict
    /\ ret1 # ret2 /\ SameMapping(ret1, ret2)

(* C19: as long as the client has not shut down its write half the         *)
(* handler is in rfile.read(): nothing has been decoded or validated,       *)
(* resolve() has not been called and nothing has been written back.         *)
C19_ReadUntilEOF ==
    (cur # 0 /\ ~ineof[cur]) =>
      /\ hpc = "read" \/ (hpc = "finish" /\ hout = "interrupted")
      /\ diag = "" /\ securities = None /\ fields = None
      /\ NoCall /\ NoReply

C19_Witness ==
    /\ cur # 0 /\ hpc = "read" /\ ~ineof[cur]
    /\ cpc[cur] = "sent" /\ inb[cur] = <<>>
    /\ data = ListBody(<<"E1">>, <<"F1">>)
    /\ NoCall /\ NoReply

(* C20: with sender() as the client and a backend that comes to deliver    *)
(* the terminal event, every connection made comes to its end and stays     *)
(* there: the server has seen the end of the request and closed its side,   *)
(* with or without a reply, and the sender has seen the close and ended.    *)
(* A sender ends once and does not start again, so this says of every       *)
(* exchange that it completes.                                              *)
C20_ExchangeCompletes ==
    <>[](\A c \in Clients :
            \/ cpc[c] = "failed"
            \/ cpc[c] = "done" /\ ineof[c] /\ closed[c] /\ outb[c] = <<>>)

C20_Witness ==
    /\ ~intr /\ hpc = "idle" /\ backlog = <<>>
    /\ \A c \in Clients : cpc[c] = "done" /\ closed[c] /\ outb[c] = <<>>
    /\ \E c \in Clients : got[c] # <<>>
    /\ \E c \in Clients : got[c] = <<>>

====
